---------------------------- MODULE Spec2Model ----------------------------
(***************************************************************************)
(* Finding normalization and aggregation pipeline of PHALANX / AegisPHP.   *)
(*                                                                         *)
(* phalanx.py and aegisphp.py run three PHP scanners (psalm, parse,        *)
(* progpilot), parse each scanner's stdout as JSON, convert the raw issues *)
(* to a unified finding record and build summary counts.                   *)
(*                                                                         *)
(* Python values are modelled as tagged records.  A string is the sequence *)
(* of its characters (one-character TLA+ strings), so that lower(),        *)
(* strip(), str(), int() and the [:N] slices are computed, not assumed.    *)
(***************************************************************************)
EXTENDS Integers, Sequences, FiniteSets, TLC

VARIABLES
    program,      \* which script runs: "phalanx" or "aegisphp"
    pc,           \* position in main()
    psalm_out,    \* text returned by run_tool for psalm
    parse_out,    \* text returned by run_tool for parse
    prog_out,     \* text returned by run_tool for progpilot
    psalm_json,   \* parsed psalm payload
    parse_json,   \* parsed parse payload
    prog_json,    \* parsed progpilot payload
    all_findings, \* main(): the concatenated findings
    report,       \* main(): {"summary": ..., "findings": ...}
    raised,       \* the uncaught exception that ended main(), and the tool it was raised for
    u_tool,       \* adapter under test (unit specification)
    u_data,       \* its argument
    u_result,     \* its return value
    c_state,      \* concurrent specification: per adapter "idle" / "running" / "done"
    c_iter,       \* per adapter: the items being iterated
    c_idx,        \* per adapter: number of items consumed
    c_findings,   \* per adapter: its local findings list
    c_order,      \* history: the adapters in the order they returned
    c_prev,       \* report content of the previous run of the pipeline
    clock         \* the wall clock read by datetime.utcnow()

vars == <<program, pc, psalm_out, parse_out, prog_out, psalm_json, parse_json,
          prog_json, all_findings, report, raised, u_tool, u_data, u_result,
          c_state, c_iter, c_idx, c_findings, c_order, c_prev, clock>>

-----------------------------------------------------------------------------
(* Bounds of the model *)

\* longest raw issue list handed to an adapter in the pipeline specifications
MaxIssues == 2

\* number of well-formed issues around the issue under test in the unit specification
MaxTail == 1

-----------------------------------------------------------------------------
(* Program constants: the slice bounds of the adapters *)

TITLE_MAX == 500
FILE_MAX == 1000
CODE_MAX == 1000
TYPE_MAX == 100
LINK_MAX == 500
RULE_MAX == 100

-----------------------------------------------------------------------------
(* Python scalar values *)

vStr(s)  == [t |-> "str",  s |-> s, n |-> 0]
vInt(n)  == [t |-> "int",  s |-> <<>>, n |-> n]
vBool(b) == [t |-> "bool", s |-> <<>>, n |-> IF b THEN 1 ELSE 0]
None    == [t |-> "null", s |-> <<>>, n |-> 0]
\* a JSON array used as a field value: s is its repr, n its length
List(repr, len) == [t |-> "list", s |-> repr, n |-> len]
\* a key that the dict does not hold
Absent  == [t |-> "absent", s |-> <<>>, n |-> 0]

EmptyList == List(<<"[", "]">>, 0)

\* every key any adapter reads from a raw issue
Keys == {"message", "file_name", "line_from", "severity", "snippet", "type",
         "link", "title", "file", "line", "code", "rule", "description",
         "rule_name"}

NoFields == [k \in Keys |-> Absent]

\* an element of a raw issue list: a JSON object (t = "dict", f its keys) or a scalar
Dict(m) == [t |-> "dict", s |-> <<>>, n |-> 0,
            f |-> [k \in Keys |-> IF k \in DOMAIN m THEN m[k] ELSE Absent]]
Scalar(v) == [t |-> v.t, s |-> v.s, n |-> v.n, f |-> NoFields]

\* the value stored under a payload's top-level list key
ListV(items) == [t |-> "list", items |-> items, s |-> <<>>]
NullV        == [t |-> "null", items |-> <<>>, s |-> <<>>]
StrV(s)      == [t |-> "str",  items |-> <<>>, s |-> s]
\* a JSON object under the list key: items are its keys, in order
DictV(keys)  == [t |-> "dict", items |-> keys, s |-> <<>>]
AbsentV      == [t |-> "absent", items |-> <<>>, s |-> <<>>]

\* a payload: a JSON object holding (at most) the key k, or a non-object
Payload(k, v) == [t |-> "dict", k |-> k, v |-> v]
EmptyDict     == [t |-> "dict", k |-> "", v |-> AbsentV]
NonDict(tag)  == [t |-> tag, k |-> "", v |-> AbsentV]

-----------------------------------------------------------------------------
(* Python built-ins used by the adapters *)

LowerChars == <<"a","b","c","d","e","f","g","h","i","j","k","l","m",
                "n","o","p","q","r","s","t","u","v","w","x","y","z">>
UpperChars == <<"A","B","C","D","E","F","G","H","I","J","K","L","M",
                "N","O","P","Q","R","S","T","U","V","W","X","Y","Z">>

LowerChar(c) ==
    IF \E i \in 1..Len(UpperChars) : UpperChars[i] = c
    THEN LowerChars[CHOOSE i \in 1..Len(UpperChars) : UpperChars[i] = c]
    ELSE c

\* str.lower()
StrLower(s) == [i \in 1..Len(s) |-> LowerChar(s[i])]

Whitespace == {" ", "\t", "\n", "\r", "\f"}

\* str.lstrip(): drop leading whitespace only
StrStrip_LeftOnly(s) ==
    LET solid == {i \in 1..Len(s) : s[i] \notin Whitespace}
    IN IF solid = {} THEN <<>>
       ELSE SubSeq(s, CHOOSE i \in solid : \A j \in solid : i <= j, Len(s))

\* str.strip(): drop leading and trailing whitespace
StrStrip(s) ==
    LET solid == {i \in 1..Len(s) : s[i] \notin Whitespace}
    IN IF solid = {} THEN <<>>
       ELSE LET lo == CHOOSE i \in solid : \A j \in solid : i <= j
                hi == CHOOSE i \in solid : \A j \in solid : j <= i
            IN SubSeq(s, lo, hi)

\* s[:n] taking one character too many
Slice_OffByOne(s, n) == IF Len(s) <= n + 1 THEN s ELSE SubSeq(s, 1, n + 1)

\* s[:n]
Slice(s, n) == IF Len(s) <= n THEN s ELSE SubSeq(s, 1, n)

DigitChars == <<"0","1","2","3","4","5","6","7","8","9">>
IsDigit(c) == \E i \in 1..10 : DigitChars[i] = c
DigitVal(c) == (CHOOSE i \in 1..10 : DigitChars[i] = c) - 1

RECURSIVE NatToStr(_)
NatToStr(n) ==
    IF n < 10 THEN <<DigitChars[n + 1]>>
    ELSE Append(NatToStr(n \div 10), DigitChars[(n % 10) + 1])

RECURSIVE StrToNat(_)
StrToNat(s) ==
    IF Len(s) = 0 THEN 0
    ELSE 10 * StrToNat(SubSeq(s, 1, Len(s) - 1)) + DigitVal(s[Len(s)])

\* str(v)
PyStr(v) ==
    CASE v.t = "str"  -> v.s
      [] v.t = "int"  -> IF v.n < 0 THEN <<"-">> \o NatToStr(0 - v.n) ELSE NatToStr(v.n)
      [] v.t = "bool" -> IF v.n = 1 THEN <<"T","r","u","e">> ELSE <<"F","a","l","s","e">>
      [] v.t = "null" -> <<"N","o","n","e">>
      [] OTHER        -> v.s

\* truth value of v, as `or` tests it
Truthy(v) ==
    CASE v.t = "str"  -> Len(v.s) > 0
      [] v.t = "int"  -> v.n # 0
      [] v.t = "bool" -> v.n = 1
      [] v.t = "list" -> v.n > 0
      [] OTHER        -> FALSE

\* a or b
PyOr(a, b) == IF Truthy(a) THEN a ELSE b

\* int(v): [ok |-> FALSE] stands for ValueError / TypeError
PyInt(v) ==
    CASE v.t \in {"int", "bool"} -> [ok |-> TRUE, n |-> v.n]
      [] v.t = "str" ->
            LET body   == StrStrip(v.s)
                signed == Len(body) > 0 /\ body[1] \in {"+", "-"}
                digits == IF signed THEN Tail(body) ELSE body
            IN IF Len(digits) > 0 /\ \A i \in 1..Len(digits) : IsDigit(digits[i])
               THEN [ok |-> TRUE,
                     n |-> IF signed /\ body[1] = "-"
                           THEN 0 - StrToNat(digits) ELSE StrToNat(digits)]
               ELSE [ok |-> FALSE, n |-> 0]
      [] OTHER -> [ok |-> FALSE, n |-> 0]

\* issue.get(k, d) on a dict
Get(issue, k, d) == IF issue.f[k].t = "absent" THEN d ELSE issue.f[k]

\* issue.get(k): None when the key is missing
Get1(issue, k) == Get(issue, k, None)

\* for x in v: the items visited, or ok = FALSE when v is not iterable
PyIter(v) ==
    CASE v.t \in {"list", "dict"} -> [ok |-> TRUE, items |-> v.items]
      [] v.t = "str" ->
            [ok |-> TRUE, items |-> [i \in 1..Len(v.s) |-> Scalar(vStr(<<v.s[i]>>))]]
      [] OTHER -> [ok |-> FALSE, items |-> <<>>]

\* data.get(key, []) on a payload; ok = FALSE when data has no get()
DataGet(data, key) ==
    IF data.t # "dict" THEN [ok |-> FALSE, v |-> AbsentV]
    ELSE IF data.k = key /\ data.v.t # "absent" THEN [ok |-> TRUE, v |-> data.v]
    ELSE [ok |-> TRUE, v |-> ListV(<<>>)]

-----------------------------------------------------------------------------
(* Severity normalization *)

sInfo     == <<"i","n","f","o">>
sNotice   == <<"n","o","t","i","c","e">>
sWarning  == <<"w","a","r","n","i","n","g">>
sError    == <<"e","r","r","o","r">>
sCritical == <<"c","r","i","t","i","c","a","l">>
sMedium   == <<"m","e","d","i","u","m">>

\* SEV_MAP.get(sev, default)
SEV_MAP_get(sev, default) ==
    CASE sev = sInfo     -> "low"
      [] sev = sNotice   -> "low"
      [] sev = sWarning  -> "medium"
      [] sev = sError    -> "high"
      [] sev = sCritical -> "critical"
      [] OTHER           -> default

\* the lookup without the lower-casing
Severity_NoLower(issue, default) ==
    LET raw == Get(issue, "severity", vStr(default))
    IN IF raw.t # "str" THEN [ok |-> FALSE, sev |-> "medium"]
       ELSE [ok |-> TRUE, sev |-> SEV_MAP_get(raw.s, "medium")]

\* issue.get("severity", default).lower(), then the SEV_MAP lookup;
\* ok = FALSE when the value has no lower()
Severity(issue, default) ==
    LET raw == Get(issue, "severity", vStr(default))
    IN IF raw.t # "str" THEN [ok |-> FALSE, sev |-> "medium"]
       ELSE [ok |-> TRUE, sev |-> SEV_MAP_get(StrLower(raw.s), "medium")]

-----------------------------------------------------------------------------
(* phalanx.py: the three adapters *)

Tools == <<"psalm", "parse", "progpilot">>
ToolSet == {"psalm", "parse", "progpilot"}

\* the top-level key holding each tool's raw issue list
ListKey(tool) ==
    CASE tool = "psalm" -> "issues"
      [] tool = "parse" -> "findings"
      [] OTHER          -> "results"

\* str(v)[:n]
Bounded(v, n) == vStr(Slice(PyStr(v), n))

NoFinding == [tool |-> "", title |-> Absent, file |-> Absent, line |-> Absent,
              severity |-> "", code |-> Absent,
              metadata |-> [type |-> Absent, link |-> Absent, rule |-> Absent]]

Raised == [ok |-> FALSE, f |-> NoFinding]

\* body of the loop of normalize_psalm; ok = FALSE when it raises
PsalmIssue(issue) ==
    IF issue.t # "dict" THEN Raised
    ELSE LET sev  == Severity(issue, <<>>)
             line == PyInt(Get(issue, "line_from", vInt(0)))
         IN IF ~sev.ok \/ ~line.ok THEN Raised
            ELSE [ok |-> TRUE,
                  f |-> [tool     |-> "psalm",
                         title    |-> Bounded(Get(issue, "message", vStr(<<>>)), TITLE_MAX),
                         file     |-> Bounded(Get(issue, "file_name", vStr(<<>>)), FILE_MAX),
                         line     |-> vInt(line.n),
                         severity |-> sev.sev,
                         code     |-> vStr(Slice(StrStrip(PyStr(Get(issue, "snippet", vStr(<<>>)))),
                                                 CODE_MAX)),
                         metadata |-> [type |-> Bounded(Get(issue, "type", vStr(<<>>)), TYPE_MAX),
                                       link |-> Bounded(Get(issue, "link", vStr(<<>>)), LINK_MAX),
                                       rule |-> Absent]]]

\* body of the loop of normalize_parse
ParseIssue(issue) ==
    IF issue.t # "dict" THEN Raised
    ELSE LET sev  == Severity(issue, sWarning)
             line == PyInt(Get(issue, "line", vInt(0)))
         IN IF ~sev.ok \/ ~line.ok THEN Raised
            ELSE [ok |-> TRUE,
                  f |-> [tool     |-> "parse",
                         title    |-> Bounded(PyOr(Get1(issue, "title"),
                                                   Get(issue, "message", vStr(<<>>))), TITLE_MAX),
                         file     |-> Bounded(Get(issue, "file", vStr(<<>>)), FILE_MAX),
                         line     |-> vInt(line.n),
                         severity |-> sev.sev,
                         code     |-> Bounded(Get(issue, "code", vStr(<<>>)), CODE_MAX),
                         metadata |-> [type |-> Absent, link |-> Absent,
                                       rule |-> Bounded(Get(issue, "rule", vStr(<<>>)), RULE_MAX)]]]

\* body of the loop of normalize_progpilot
ProgpilotIssue(issue) ==
    IF issue.t # "dict" THEN Raised
    ELSE LET sev  == Severity(issue, sMedium)
             line == PyInt(Get(issue, "line", vInt(0)))
         IN IF ~sev.ok \/ ~line.ok THEN Raised
            ELSE [ok |-> TRUE,
                  f |-> [tool     |-> "progpilot",
                         title    |-> Bounded(PyOr(Get1(issue, "description"),
                                                   Get(issue, "message", vStr(<<>>))), TITLE_MAX),
                         file     |-> Bounded(Get(issue, "file", vStr(<<>>)), FILE_MAX),
                         line     |-> vInt(line.n),
                         severity |-> sev.sev,
                         code     |-> Bounded(Get(issue, "code", vStr(<<>>)), CODE_MAX),
                         metadata |-> [type |-> Absent, link |-> Absent,
                                       rule |-> Bounded(Get(issue, "rule_name", vStr(<<>>)), RULE_MAX)]]]

IssueFinding(tool, issue) ==
    CASE tool = "psalm" -> PsalmIssue(issue)
      [] tool = "parse" -> ParseIssue(issue)
      [] OTHER          -> ProgpilotIssue(issue)

\* the loop putting each new finding in front of the earlier ones
RECURSIVE TryLoop_Prepend(_, _, _, _)
TryLoop_Prepend(tool, items, i, findings) ==
    IF i > Len(items) THEN findings
    ELSE LET r == IssueFinding(tool, items[i])
         IN IF ~r.ok THEN findings
            ELSE TryLoop_Prepend(tool, items, i + 1, <<r.f>> \o findings)

\* the loop with the try block around the loop body: a raising issue is
\* passed over and the loop goes on
RECURSIVE TryLoop_SkipFailing(_, _, _, _)
TryLoop_SkipFailing(tool, items, i, findings) ==
    IF i > Len(items) THEN findings
    ELSE LET r == IssueFinding(tool, items[i])
         IN IF ~r.ok THEN TryLoop_SkipFailing(tool, items, i + 1, findings)
            ELSE TryLoop_SkipFailing(tool, items, i + 1, Append(findings, r.f))

\* the for loop inside the try block: the first issue that raises ends the
\* loop, the except clause logs, and the findings built so far are returned
RECURSIVE TryLoop(_, _, _, _)
TryLoop(tool, items, i, findings) ==
    IF i > Len(items) THEN findings
    ELSE LET r == IssueFinding(tool, items[i])
         IN IF ~r.ok THEN findings
            ELSE TryLoop(tool, items, i + 1, Append(findings, r.f))

\* an adapter of phalanx.py: data.get(key, []) and the iteration are inside the try too
Normalize(tool, data) ==
    LET got == DataGet(data, ListKey(tool))
    IN IF ~got.ok THEN <<>>
       ELSE LET it == PyIter(got.v)
            IN IF ~it.ok THEN <<>>
               ELSE TryLoop(tool, it.items, 1, <<>>)

normalize_psalm(data)     == Normalize("psalm", data)
normalize_parse(data)     == Normalize("parse", data)
normalize_progpilot(data) == Normalize("progpilot", data)

-----------------------------------------------------------------------------
(* Text handed over by the scan runner, and json.loads *)

\* the text of a JSON document whose value is v
JsonText(v) == [kind |-> "json", val |-> v]
\* the empty string
EmptyText   == [kind |-> "empty", val |-> EmptyDict]
\* text that is not a JSON document
GarbageText == [kind |-> "garbage", val |-> EmptyDict]
\* not assigned yet
NoText      == [kind |-> "unset", val |-> EmptyDict]

\* x or "{}"
OrEmptyObject(text) == IF text.kind = "empty" THEN JsonText(EmptyDict) ELSE text

\* json.loads(text): ok = FALSE stands for JSONDecodeError
json_loads(text) ==
    IF text.kind = "json" THEN [ok |-> TRUE, val |-> text.val]
    ELSE [ok |-> FALSE, val |-> EmptyDict]

\* phalanx.py run_tool: stdout, or "{}" for an empty stdout, a timeout or any error
run_tool(outcome) ==
    IF outcome.how \in {"timeout", "oserror"} THEN JsonText(EmptyDict)
    ELSE OrEmptyObject(outcome.stdout)

\* phalanx.py main: json.loads inside try / except JSONDecodeError
LoadOrEmpty(text) == IF json_loads(text).ok THEN json_loads(text).val ELSE EmptyDict

-----------------------------------------------------------------------------
(* phalanx.py main: concatenation and summary *)

\* all_findings after the three extend() calls
Concat_ParseFirst(a, b, c) == b \o a \o c

Concat(a, b, c) == a \o b \o c

\* d[k] = d.get(k, 0) + 1, missing the case of a new key
Increment_ExistingOnly(d, k) == IF k \in DOMAIN d THEN [d EXCEPT ![k] = @ + 1] ELSE d

\* d[k] = d.get(k, 0) + 1
Increment(d, k) == IF k \in DOMAIN d THEN [d EXCEPT ![k] = @ + 1] ELSE d @@ (k :> 1)

\* the loop over all_findings that fills by_tool and by_severity
RECURSIVE Tally(_, _, _)
Tally(findings, i, summary) ==
    IF i > Len(findings) THEN summary
    ELSE Tally(findings, i + 1,
               [summary EXCEPT !.by_tool = Increment(@, findings[i].tool),
                               !.by_severity = Increment(@, findings[i].severity)])

\* the summary with by_tool starting from a zero count for every tool
BuildSummary_PrefilledTools(findings, now) ==
    Tally(findings, 1,
          [total_findings   |-> Len(findings),
           by_tool          |-> [t \in ToolSet |-> 0],
           by_severity      |-> [s \in {"low", "medium", "high", "critical"} |-> 0],
           scan_timestamp   |-> now,
           phalanx_version  |-> "0.1.0"])

\* the summary dict and the counting loop
BuildSummary(findings, now) ==
    Tally(findings, 1,
          [total_findings   |-> Len(findings),
           by_tool          |-> <<>>,
           by_severity      |-> [s \in {"low", "medium", "high", "critical"} |-> 0],
           scan_timestamp   |-> now,
           phalanx_version  |-> "0.1.0"])

BuildReport(findings, now) == [summary |-> BuildSummary(findings, now), findings |-> findings]

NoReport == [summary |-> <<>>, findings |-> <<>>]

\* no exception has left main()
NoExc == [at |-> "", exc |-> ""]

\* what two reports are compared on: everything but the timestamp
Content(r) == [findings       |-> r.findings,
               total_findings |-> r.summary.total_findings,
               by_tool        |-> r.summary.by_tool,
               by_severity    |-> r.summary.by_severity]

NoContent == [findings |-> <<>>, total_findings |-> 0 - 1, by_tool |-> <<>>, by_severity |-> <<>>]

-----------------------------------------------------------------------------
(* aegisphp.py: adapters without try/except, str() or slicing *)

AegisSeverity(issue, default) == Severity(issue, default)

AegisPsalmIssue(issue) ==
    IF issue.t # "dict" THEN Raised
    ELSE LET sev     == AegisSeverity(issue, <<>>)
             snippet == Get(issue, "snippet", vStr(<<>>))
         IN IF ~sev.ok \/ snippet.t # "str" THEN Raised
            ELSE [ok |-> TRUE,
                  f |-> [tool     |-> "psalm",
                         title    |-> Get1(issue, "message"),
                         file     |-> Get1(issue, "file_name"),
                         line     |-> Get1(issue, "line_from"),
                         severity |-> sev.sev,
                         code     |-> vStr(StrStrip(snippet.s)),
                         metadata |-> [type |-> Get1(issue, "type"),
                                       link |-> Get1(issue, "link"),
                                       rule |-> Absent]]]

AegisParseIssue(issue) ==
    IF issue.t # "dict" THEN Raised
    ELSE LET sev == AegisSeverity(issue, sWarning)
         IN IF ~sev.ok THEN Raised
            ELSE [ok |-> TRUE,
                  f |-> [tool     |-> "parse",
                         title    |-> PyOr(Get1(issue, "title"), Get1(issue, "message")),
                         file     |-> Get1(issue, "file"),
                         line     |-> Get1(issue, "line"),
                         severity |-> sev.sev,
                         code     |-> Get(issue, "code", vStr(<<>>)),
                         metadata |-> [type |-> Absent, link |-> Absent,
                                       rule |-> Get1(issue, "rule")]]]

AegisProgpilotIssue(issue) ==
    IF issue.t # "dict" THEN Raised
    ELSE LET sev == AegisSeverity(issue, sMedium)
         IN IF ~sev.ok THEN Raised
            ELSE [ok |-> TRUE,
                  f |-> [tool     |-> "progpilot",
                         title    |-> PyOr(Get1(issue, "description"), Get1(issue, "message")),
                         file     |-> Get1(issue, "file"),
                         line     |-> Get1(issue, "line"),
                         severity |-> sev.sev,
                         code     |-> Get(issue, "code", vStr(<<>>)),
                         metadata |-> [type |-> Absent, link |-> Absent,
                                       rule |-> Get1(issue, "rule_name")]]]

AegisIssueFinding(tool, issue) ==
    CASE tool = "psalm" -> AegisPsalmIssue(issue)
      [] tool = "parse" -> AegisParseIssue(issue)
      [] OTHER          -> AegisProgpilotIssue(issue)

\* the bare for loop: an exception leaves the adapter (ok = FALSE)
RECURSIVE AegisLoop(_, _, _, _)
AegisLoop(tool, items, i, findings) ==
    IF i > Len(items) THEN [ok |-> TRUE, findings |-> findings, exc |-> ""]
    ELSE LET r == AegisIssueFinding(tool, items[i])
         IN IF ~r.ok THEN [ok |-> FALSE, findings |-> <<>>, exc |-> "AttributeError"]
            ELSE AegisLoop(tool, items, i + 1, Append(findings, r.f))

\* an adapter of aegisphp.py
AegisNormalize(tool, data) ==
    LET got == DataGet(data, ListKey(tool))
    IN IF ~got.ok THEN [ok |-> FALSE, findings |-> <<>>, exc |-> "AttributeError"]
       ELSE LET it == PyIter(got.v)
            IN IF ~it.ok THEN [ok |-> FALSE, findings |-> <<>>, exc |-> "TypeError"]
               ELSE AegisLoop(tool, it.items, 1, <<>>)

\* the summary of aegisphp.py: total_findings and by_tool only
RECURSIVE AegisTally(_, _, _)
AegisTally(findings, i, summary) ==
    IF i > Len(findings) THEN summary
    ELSE AegisTally(findings, i + 1,
                    [summary EXCEPT !.by_tool = Increment(@, findings[i].tool)])

AegisReport(findings) ==
    [summary  |-> AegisTally(findings, 1, [total_findings |-> Len(findings), by_tool |-> <<>>]),
     findings |-> findings]

-----------------------------------------------------------------------------
(* Raw inputs of the unit specification: one adapter applied to one payload *)

\* the raw key each tool reads a finding field from
FieldKey(tool, role) ==
    CASE role = "title"    -> (CASE tool = "psalm" -> "message"
                                 [] tool = "parse" -> "title"
                                 [] OTHER          -> "description")
      [] role = "file"     -> (IF tool = "psalm" THEN "file_name" ELSE "file")
      [] role = "line"     -> (IF tool = "psalm" THEN "line_from" ELSE "line")
      [] role = "code"     -> (IF tool = "psalm" THEN "snippet" ELSE "code")
      [] role = "meta"     -> (CASE tool = "psalm" -> "type"
                                 [] tool = "parse" -> "rule"
                                 [] OTHER          -> "rule_name")
      [] OTHER             -> role

\* a well-formed issue of each tool
BaseIssue(tool) ==
    Dict((FieldKey(tool, "title") :> vStr(<<"t">>)) @@
         (IF tool = "psalm" THEN <<>> ELSE ("message" :> vStr(<<"m">>))) @@
         (FieldKey(tool, "file") :> vStr(<<"a", ".", "p", "h", "p">>)) @@
         (FieldKey(tool, "line") :> vInt(10)) @@
         ("severity" :> vStr(sError)) @@
         (FieldKey(tool, "code") :> vStr(<<"$", "x">>)) @@
         (FieldKey(tool, "meta") :> vStr(<<"r">>)) @@
         (IF tool = "psalm" THEN ("link" :> vStr(<<"l">>)) ELSE <<>>))

\* issue with key k set to v (v = Absent removes the key)
With(issue, k, v) == [issue EXCEPT !.f[k] = v]

\* every upper/lower casing of the lower-case word w
Casings(w) ==
    {[i \in 1..Len(w) |-> IF i \in U THEN UpperChars[CHOOSE j \in 1..26 : LowerChars[j] = w[i]]
                          ELSE w[i]] : U \in SUBSET (1..Len(w))}

SevWords == {sInfo, sNotice, sWarning, sError, sCritical}

SevStrings ==
    UNION {Casings(w) : w \in SevWords}
    \cup {<<>>, sMedium, <<"h", "i", "g", "h">>, <<"l", "o", "w">>, <<"e", "r", "r", "o", "r", "s">>, <<" ", "e", "r", "r", "o", "r">>, <<"e", "r", "r", "o", "r", " ">>, <<"w", "a", "r", "n">>, <<"i", "n", "f">>, <<"e">>, <<"C", "r", "i", "t", "i", "c", "a", "l", "!">>, <<"f", "a", "t", "a", "l">>, <<"0">>}

SevValues == {vStr(s) : s \in SevStrings} \cup {Absent, None, vInt(1), vBool(TRUE), EmptyList}

LineValues ==
    {Absent, None, EmptyList, vBool(TRUE), vBool(FALSE), vInt(0), vInt(7), vInt(0 - 3), vInt(120)}
    \cup {vStr(s) : s \in {<<"1", "2">>, <<" ", "1", "2", " ">>, <<"a", "b", "c">>, <<"-", "5">>, <<"+", "4">>, <<"1", ".", "5">>, <<"1", " ", "2">>, <<"-">>, <<"0", "0", "7">>, <<"1", "2", "a">>, <<"\n", "3", "\t">>, <<>>}}

\* a string of n characters that is not constant
Pattern(n) == [i \in 1..n |-> <<"a", "b", "c">>[(i % 3) + 1]]

\* values for a field bounded to n characters
TextValues(n) ==
    {Absent, None, EmptyList, vBool(FALSE), vInt(0), vInt(42), vInt(0 - 7),
     vStr(<<>>), vStr(<<"q">>),
     vStr(Pattern(n - 1)), vStr(Pattern(n)), vStr(Pattern(n + 1)), vStr(Pattern(n + 2)),
     vStr(Pattern(n) \o <<"Z", "Z", "Z">>)}

\* values of the code field: also strings with whitespace around them
CodeValues ==
    TextValues(CODE_MAX)
    \cup {vStr(s) : s \in {<<" ", "$", "x", " ">>, <<"\n", " ", "$", "x", ";", "\t", "\n">>, <<" ", " ", "\n">>, <<"$", "x", " ", "=", " ", "1", ";", " ">>, <<"\t", "i", "f">>,
                           <<" ">> \o Pattern(CODE_MAX),
                           <<" ", "\n">> \o Pattern(CODE_MAX + 1),
                           Pattern(CODE_MAX - 1) \o <<" ", " ">>,
                           Pattern(CODE_MAX) \o <<" ">>,
                           Pattern(CODE_MAX - 1) \o <<" ", "z">>,
                           <<" ">> \o Pattern(CODE_MAX - 1) \o <<" ">>}}

\* values of the fallback key "message" of parse and progpilot
MessageValues == {Absent, None, vInt(3), vStr(<<>>), vStr(<<"m">>), vStr(Pattern(TITLE_MAX + 1))}

\* raw issues that differ from the well-formed one in one field (title: in its two keys)
UnitIssues(tool) ==
    {With(BaseIssue(tool), "severity", v) : v \in SevValues}
    \cup {With(BaseIssue(tool), FieldKey(tool, "line"), v) : v \in LineValues}
    \cup {With(BaseIssue(tool), FieldKey(tool, "file"), v) : v \in TextValues(FILE_MAX)}
    \cup {With(BaseIssue(tool), FieldKey(tool, "code"), v) : v \in CodeValues}
    \cup {With(BaseIssue(tool), FieldKey(tool, "meta"), v) :
            v \in TextValues(IF tool = "psalm" THEN TYPE_MAX ELSE RULE_MAX)}
    \cup {With(BaseIssue(tool), "link", v) : v \in TextValues(LINK_MAX)}
    \cup (IF tool = "psalm"
          THEN {With(BaseIssue(tool), "message", v) : v \in TextValues(TITLE_MAX)}
          ELSE {With(With(BaseIssue(tool), FieldKey(tool, "title"), v), "message", m) :
                  v \in TextValues(TITLE_MAX), m \in MessageValues})
    \cup {Scalar(v) : v \in {None, vInt(5), vStr(<<"x">>), EmptyList}}

\* k well-formed issues
Filler(tool, k) == [i \in 1..k |-> BaseIssue(tool)]

\* payloads: the issue under test among at most MaxTail well-formed ones on each side
UnitPayloads(tool) ==
    {Payload(ListKey(tool), ListV(Filler(tool, h) \o <<x>> \o Filler(tool, k))) :
        x \in UnitIssues(tool), h \in 0..MaxTail, k \in 0..MaxTail}

InitUnit ==
    /\ program = "phalanx"
    /\ pc = "call"
    /\ u_tool \in ToolSet
    /\ u_data \in UnitPayloads(u_tool)
    /\ u_result = <<>>
    /\ psalm_out = NoText /\ parse_out = NoText /\ prog_out = NoText
    /\ psalm_json = EmptyDict /\ parse_json = EmptyDict /\ prog_json = EmptyDict
    /\ all_findings = <<>>
    /\ report = NoReport
    /\ raised = NoExc
    /\ c_state = <<>> /\ c_iter = <<>> /\ c_idx = <<>> /\ c_findings = <<>>
    /\ c_order = <<>>
    /\ c_prev = NoContent /\ clock = 1

\* one call adapter(data)
CallAdapter ==
    /\ pc = "call"
    /\ u_result' = (CASE u_tool = "psalm" -> normalize_psalm(u_data)
                      [] u_tool = "parse" -> normalize_parse(u_data)
                      [] OTHER            -> normalize_progpilot(u_data))
    /\ pc' = "returned"
    /\ UNCHANGED <<program, psalm_out, parse_out, prog_out, psalm_json, parse_json,
                   prog_json, all_findings, report, raised, u_tool, u_data,
                   c_state, c_iter, c_idx, c_findings, c_order, c_prev, clock>>

NextUnit == CallAdapter

SpecUnit == InitUnit /\ [][NextUnit]_vars

-----------------------------------------------------------------------------
(* Raw inputs of the pipeline specifications *)

\* three raw issues per tool: two well-formed ones that differ in title and
\* severity, and an entry that is not an object
IssueA(tool) ==
    With(BaseIssue(tool), "severity",
         CASE tool = "psalm" -> vStr(sError)
           [] tool = "parse" -> vStr(<<"W", "a", "r", "n", "i", "n", "g">>)
           [] OTHER          -> vStr(<<"C", "R", "I", "T", "I", "C", "A", "L">>))

IssueB(tool) ==
    With(With(BaseIssue(tool), FieldKey(tool, "title"), vStr(<<"u">>)), "severity",
         CASE tool = "psalm" -> vStr(<<"I", "N", "F", "O">>)
           [] tool = "parse" -> vStr(sNotice)
           [] OTHER          -> Absent)

IssueX == Scalar(vStr(<<"x">>))

WellFormed(tool) == {IssueA(tool), IssueB(tool)}

\* all sequences over S of length at most n
SeqsUpTo(S, n) == UNION {[1..k -> S] : k \in 0..n}

\* raw issue lists of at most MaxIssues entries: well-formed issues, with the
\* entry that is not an object possibly in front of them or behind them
PipelineLists(tool) ==
    SeqsUpTo(WellFormed(tool), MaxIssues)
    \cup {<<IssueX>> \o s : s \in SeqsUpTo(WellFormed(tool), MaxIssues - 1)}
    \cup {s \o <<IssueX>> : s \in SeqsUpTo(WellFormed(tool), MaxIssues - 1)}

\* payloads whose list key is missing or holds no list, and a payload that is no object
MalformedPayloads(tool) ==
    {EmptyDict, NonDict("list"),
     Payload(ListKey(tool), NullV),
     Payload(ListKey(tool), StrV(<<"a", "b">>)),
     Payload(ListKey(tool), DictV(<<Scalar(vStr(<<"k">>))>>))}

PipelinePayloads(tool) ==
    MalformedPayloads(tool)
    \cup {Payload(ListKey(tool), ListV(items)) : items \in PipelineLists(tool)}

\* what a scanner may print
Stdouts(tool) == {EmptyText, GarbageText} \cup {JsonText(d) : d \in PipelinePayloads(tool)}

\* how a scanner process can end: its exit, a timeout, or a failure to start it
Outcomes(stdouts) ==
    {[how |-> "exit0", stdout |-> s] : s \in stdouts}
    \cup {[how |-> "nonzero", stdout |-> s] : s \in {EmptyText, GarbageText}}
    \cup {[how |-> h, stdout |-> EmptyText] : h \in {"timeout", "oserror"}}

PsalmOutcomes     == Outcomes(Stdouts("psalm"))
ParseOutcomes     == Outcomes(Stdouts("parse"))
ProgpilotOutcomes == Outcomes(Stdouts("progpilot"))

-----------------------------------------------------------------------------
(* The pipeline as main() runs it: specification Spec *)

Idle == /\ u_tool = "psalm" /\ u_data = EmptyDict /\ u_result = <<>>
        /\ c_state = <<>> /\ c_iter = <<>> /\ c_idx = <<>> /\ c_findings = <<>>
        /\ c_order = <<>>
        /\ c_prev = NoContent

Init ==
    /\ program \in {"phalanx", "aegisphp"}
    /\ pc = "start"
    /\ psalm_out = NoText /\ parse_out = NoText /\ prog_out = NoText
    /\ psalm_json = EmptyDict /\ parse_json = EmptyDict /\ prog_json = EmptyDict
    /\ all_findings = <<>>
    /\ report = NoReport
    /\ raised = NoExc
    /\ clock = 1
    /\ Idle

unit_vars == <<u_tool, u_data, u_result>>
conc_vars == <<c_state, c_iter, c_idx, c_findings, c_order, c_prev>>

\* phalanx.py main: Docker, target directory and image checks, each an early return 1
Validate ==
    /\ program = "phalanx" /\ pc = "start"
    /\ \E docker \in BOOLEAN, path \in BOOLEAN, image \in BOOLEAN :
          pc' = IF ~docker \/ ~path \/ ~image THEN "exit1" ELSE "run_psalm"
    /\ UNCHANGED <<program, psalm_out, parse_out, prog_out, psalm_json, parse_json,
                   prog_json, all_findings, report, raised, clock, unit_vars, conc_vars>>

\* phalanx.py main: run psalm and parse its output
RunPsalm ==
    /\ program = "phalanx" /\ pc = "run_psalm"
    /\ \E o \in PsalmOutcomes :
          /\ psalm_out' = run_tool(o)
          /\ psalm_json' = LoadOrEmpty(run_tool(o))
    /\ pc' = "run_parse"
    /\ UNCHANGED <<program, parse_out, prog_out, parse_json, prog_json,
                   all_findings, report, raised, clock, unit_vars, conc_vars>>

\* phalanx.py main: run parse and parse its output
RunParse ==
    /\ program = "phalanx" /\ pc = "run_parse"
    /\ \E o \in ParseOutcomes :
          /\ parse_out' = run_tool(o)
          /\ parse_json' = LoadOrEmpty(run_tool(o))
    /\ pc' = "run_progpilot"
    /\ UNCHANGED <<program, psalm_out, prog_out, psalm_json, prog_json,
                   all_findings, report, raised, clock, unit_vars, conc_vars>>

\* phalanx.py main: run progpilot and parse its output
RunProgpilot ==
    /\ program = "phalanx" /\ pc = "run_progpilot"
    /\ \E o \in ProgpilotOutcomes :
          /\ prog_out' = run_tool(o)
          /\ prog_json' = LoadOrEmpty(run_tool(o))
    /\ pc' = "normalize"
    /\ UNCHANGED <<program, psalm_out, parse_out, psalm_json, parse_json,
                   all_findings, report, raised, clock, unit_vars, conc_vars>>

\* phalanx.py main: normalize all findings, build the summary and the report
NormalizeAndSummarize ==
    /\ program = "phalanx" /\ pc = "normalize"
    /\ LET findings == Concat(normalize_psalm(psalm_json),
                              normalize_parse(parse_json),
                              normalize_progpilot(prog_json))
       IN /\ all_findings' = findings
          /\ report' = BuildReport(findings, clock)
    /\ pc' = "done"
    /\ UNCHANGED <<program, psalm_out, parse_out, prog_out, psalm_json, parse_json,
                   prog_json, raised, clock, unit_vars, conc_vars>>

\* aegisphp.py run_tool and the json.loads that follows it: the text, and
\* whether an exception left main() (run_tool catches CalledProcessError only)
AegisRun(o) ==
    LET out == IF o.how = "nonzero" THEN OrEmptyObject(o.stdout) ELSE o.stdout
    IN [text   |-> IF o.how = "oserror" THEN NoText ELSE out,
        loaded |-> json_loads(OrEmptyObject(out)),
        raised |-> o.how = "oserror" \/ ~json_loads(OrEmptyObject(out)).ok,
        exc    |-> IF o.how = "oserror" THEN "OSError"
                   ELSE IF ~json_loads(OrEmptyObject(out)).ok THEN "JSONDecodeError"
                   ELSE ""]

\* subprocess.check_output is called without a timeout
NoTimeout(outcomes) == {o \in outcomes : o.how # "timeout"}

AegisPsalmOutcomes     == NoTimeout(PsalmOutcomes)
AegisParseOutcomes     == NoTimeout(ParseOutcomes)
AegisProgpilotOutcomes == NoTimeout(ProgpilotOutcomes)

\* aegisphp.py main: target check (exit 1) and ensure_image (check_call may raise)
AegisStart ==
    /\ program = "aegisphp" /\ pc = "start"
    /\ \E isdir \in BOOLEAN, built \in BOOLEAN :
          /\ pc' = IF ~isdir THEN "exit1" ELSE IF ~built THEN "crashed" ELSE "run_psalm"
          /\ raised' = IF isdir /\ ~built THEN [at |-> "", exc |-> "CalledProcessError"]
                        ELSE raised
    /\ UNCHANGED <<program, psalm_out, parse_out, prog_out, psalm_json, parse_json,
                   prog_json, all_findings, report, clock, unit_vars, conc_vars>>

\* aegisphp.py main: run psalm, json.loads outside any try
AegisRunPsalm ==
    /\ program = "aegisphp" /\ pc = "run_psalm"
    /\ \E o \in AegisPsalmOutcomes :
          /\ psalm_out' = AegisRun(o).text
          /\ psalm_json' = AegisRun(o).loaded.val
          /\ pc' = IF AegisRun(o).raised THEN "crashed" ELSE "run_parse"
          /\ raised' = IF AegisRun(o).raised THEN [at |-> "psalm", exc |-> AegisRun(o).exc]
                        ELSE raised
    /\ UNCHANGED <<program, parse_out, prog_out, parse_json, prog_json,
                   all_findings, report, clock, unit_vars, conc_vars>>

\* aegisphp.py main: run parse
AegisRunParse ==
    /\ program = "aegisphp" /\ pc = "run_parse"
    /\ \E o \in AegisParseOutcomes :
          /\ parse_out' = AegisRun(o).text
          /\ parse_json' = AegisRun(o).loaded.val
          /\ pc' = IF AegisRun(o).raised THEN "crashed" ELSE "run_progpilot"
          /\ raised' = IF AegisRun(o).raised THEN [at |-> "parse", exc |-> AegisRun(o).exc]
                        ELSE raised
    /\ UNCHANGED <<program, psalm_out, prog_out, psalm_json, prog_json,
                   all_findings, report, clock, unit_vars, conc_vars>>

\* aegisphp.py main: run progpilot
AegisRunProgpilot ==
    /\ program = "aegisphp" /\ pc = "run_progpilot"
    /\ \E o \in AegisProgpilotOutcomes :
          /\ prog_out' = AegisRun(o).text
          /\ prog_json' = AegisRun(o).loaded.val
          /\ pc' = IF AegisRun(o).raised THEN "crashed" ELSE "normalize"
          /\ raised' = IF AegisRun(o).raised THEN [at |-> "progpilot", exc |-> AegisRun(o).exc]
                        ELSE raised
    /\ UNCHANGED <<program, psalm_out, parse_out, psalm_json, parse_json,
                   all_findings, report, clock, unit_vars, conc_vars>>

\* aegisphp.py main: normalize and build the summary; an adapter that raises ends main()
AegisNormalizeAndSummarize ==
    /\ program = "aegisphp" /\ pc = "normalize"
    /\ LET a == AegisNormalize("psalm", psalm_json)
           b == AegisNormalize("parse", parse_json)
           c == AegisNormalize("progpilot", prog_json)
       IN IF a.ok /\ b.ok /\ c.ok
          THEN /\ all_findings' = Concat(a.findings, b.findings, c.findings)
               /\ report' = AegisReport(Concat(a.findings, b.findings, c.findings))
               /\ raised' = raised
               /\ pc' = "done"
          ELSE /\ all_findings' = (IF ~a.ok THEN <<>>
                                   ELSE IF ~b.ok THEN a.findings
                                   ELSE a.findings \o b.findings)
               /\ report' = report
               /\ raised' = (IF ~a.ok THEN [at |-> "psalm", exc |-> a.exc]
                             ELSE IF ~b.ok THEN [at |-> "parse", exc |-> b.exc]
                             ELSE [at |-> "progpilot", exc |-> c.exc])
               /\ pc' = "crashed"
    /\ UNCHANGED <<program, psalm_out, parse_out, prog_out, psalm_json, parse_json,
                   prog_json, clock, unit_vars, conc_vars>>

Next ==
    \/ Validate
    \/ RunPsalm
    \/ RunParse
    \/ RunProgpilot
    \/ NormalizeAndSummarize
    \/ AegisStart
    \/ AegisRunPsalm
    \/ AegisRunParse
    \/ AegisRunProgpilot
    \/ AegisNormalizeAndSummarize

Spec == Init /\ [][Next]_vars

-----------------------------------------------------------------------------
(* The adapters run in any order, a loop iteration at a time: specification SpecConc *)

\* the payload each adapter is handed
PayloadOf(tool) ==
    CASE tool = "psalm" -> psalm_json
      [] tool = "parse" -> parse_json
      [] OTHER          -> prog_json

ConcPayloads(tool) ==
    {NonDict("list"), Payload(ListKey(tool), NullV)}
    \cup {Payload(ListKey(tool), ListV(items)) :
            items \in {<<>>, <<IssueA(tool)>>, <<IssueA(tool), IssueB(tool)>>,
                       <<IssueX, IssueA(tool)>>, <<IssueB(tool), IssueX, IssueA(tool)>>}}

InitConc ==
    /\ program = "phalanx"
    /\ pc = "normalize"
    /\ psalm_out = NoText /\ parse_out = NoText /\ prog_out = NoText
    /\ psalm_json \in ConcPayloads("psalm")
    /\ parse_json \in ConcPayloads("parse")
    /\ prog_json \in ConcPayloads("progpilot")
    /\ all_findings = <<>>
    /\ report = NoReport
    /\ raised = NoExc
    /\ clock = 1
    /\ u_tool = "psalm" /\ u_data = EmptyDict /\ u_result = <<>>
    /\ c_state = [t \in ToolSet |-> "idle"]
    /\ c_iter = [t \in ToolSet |-> <<>>]
    /\ c_idx = [t \in ToolSet |-> 0]
    /\ c_findings = [t \in ToolSet |-> <<>>]
    /\ c_order = <<>>
    /\ c_prev = NoContent

main_vars == <<program, psalm_out, parse_out, prog_out, psalm_json, parse_json, prog_json,
              raised>>

\* an adapter is entered: findings = [], data.get(key, []) and the iterator
AdapterBegin(t) ==
    /\ pc = "normalize" /\ c_state[t] = "idle"
    /\ LET got == DataGet(PayloadOf(t), ListKey(t))
           it  == PyIter(got.v)
       IN IF got.ok /\ it.ok
          THEN /\ c_state' = [c_state EXCEPT ![t] = "running"]
               /\ c_iter' = [c_iter EXCEPT ![t] = it.items]
          ELSE /\ c_state' = [c_state EXCEPT ![t] = "done"]
               /\ c_iter' = c_iter
    /\ c_order' = IF c_state'[t] = "done" THEN Append(c_order, t) ELSE c_order
    /\ c_findings' = [c_findings EXCEPT ![t] = <<>>]
    /\ c_idx' = [c_idx EXCEPT ![t] = 0]
    /\ UNCHANGED <<main_vars, pc, all_findings, report, clock, unit_vars, c_prev>>

\* one iteration of an adapter's loop: append, or leave through the except clause;
\* the adapter returns when the list is exhausted
AdapterStep(t) ==
    /\ pc = "normalize" /\ c_state[t] = "running"
    /\ IF c_idx[t] = Len(c_iter[t])
       THEN /\ c_state' = [c_state EXCEPT ![t] = "done"]
            /\ UNCHANGED <<c_idx, c_findings>>
       ELSE LET r == IssueFinding(t, c_iter[t][c_idx[t] + 1])
            IN IF r.ok
               THEN /\ c_findings' = [c_findings EXCEPT ![t] = Append(@, r.f)]
                    /\ c_idx' = [c_idx EXCEPT ![t] = @ + 1]
                    /\ c_state' = c_state
               ELSE /\ c_state' = [c_state EXCEPT ![t] = "done"]
                    /\ UNCHANGED <<c_idx, c_findings>>
    /\ c_order' = IF c_state'[t] = "done" THEN Append(c_order, t) ELSE c_order
    /\ UNCHANGED <<main_vars, pc, all_findings, report, clock, unit_vars, c_iter, c_prev>>

\* the results are collected in the fixed order and summarized
Aggregate ==
    /\ pc = "normalize"
    /\ \A t \in ToolSet : c_state[t] = "done"
    /\ LET findings == Concat(c_findings["psalm"], c_findings["parse"], c_findings["progpilot"])
       IN /\ all_findings' = findings
          /\ report' = BuildReport(findings, clock)
    /\ pc' = "done"
    /\ UNCHANGED <<main_vars, clock, unit_vars, conc_vars>>

\* the pipeline is run once more on the same payloads, at a later time
Rerun ==
    /\ pc = "done" /\ clock = 1
    /\ c_prev' = Content(report)
    /\ clock' = clock + 1
    /\ pc' = "normalize"
    /\ all_findings' = <<>>
    /\ report' = NoReport
    /\ c_state' = [t \in ToolSet |-> "idle"]
    /\ c_iter' = [t \in ToolSet |-> <<>>]
    /\ c_idx' = [t \in ToolSet |-> 0]
    /\ c_findings' = [t \in ToolSet |-> <<>>]
    /\ c_order' = <<>>
    /\ UNCHANGED <<main_vars, unit_vars>>

NextConc ==
    \/ \E t \in ToolSet : AdapterBegin(t)
    \/ \E t \in ToolSet : AdapterStep(t)
    \/ Aggregate
    \/ Rerun

SpecConc == InitConc /\ [][NextConc]_vars

-----------------------------------------------------------------------------
(* Properties of one adapter call (specification SpecUnit) *)

\* the raw issue list handed to the adapter under test
UnitItems == u_data.v.items

Returned == pc = "returned"

\* s is the word w in some letter casing
IsCasing(s, w) ==
    /\ Len(s) = Len(w)
    /\ \A i \in 1..Len(w) :
          \/ s[i] = w[i]
          \/ \E j \in 1..26 : LowerChars[j] = w[i] /\ UpperChars[j] = s[i]

\* the mapping table of the severity normalizer
TableValue(s) ==
    IF IsCasing(s, sInfo) \/ IsCasing(s, sNotice) THEN "low"
    ELSE IF IsCasing(s, sWarning) THEN "medium"
    ELSE IF IsCasing(s, sError) THEN "high"
    ELSE IF IsCasing(s, sCritical) THEN "critical"
    ELSE "medium"

SeverityLevels == {"low", "medium", "high", "critical"}

\* C2: the severity of every finding an adapter emits is the table value of
\* the raw severity string in any letter casing, medium for any other string
\* and for a missing severity key, and always one of the four levels.
C2_SeverityTable ==
    Returned =>
        \A k \in 1..Len(u_result) :
            LET raw == UnitItems[k].f["severity"]
            IN /\ raw.t = "str" => u_result[k].severity = TableValue(raw.s)
               /\ raw.t = "absent" => u_result[k].severity = "medium"
               /\ u_result[k].severity \in SeverityLevels

\* C2 witness: a mixed-case "ErRoR" became high, and a missing key medium
C2_Witness_MixedCase ==
    /\ Returned
    /\ Len(u_result) = Len(UnitItems)
    /\ \E k \in 1..Len(u_result) :
          /\ UnitItems[k].f["severity"] = vStr(<<"E", "r", "R", "o", "R">>)
          /\ u_result[k].severity = "high"

-----------------------------------------------------------------------------
(* Skipping and line coercion (specification SpecUnit) *)

\* the raw issues of the list whose loop body does not raise
Processable == SelectSeq(UnitItems, LAMBDA x : IssueFinding(u_tool, x).ok)

\* C3: an issue whose processing throws is skipped alone: the adapter returns
\* one finding for every processable issue of the list, in order, including
\* those that come after a failing one.
C3_SkipOnlyFailing ==
    Returned =>
        /\ Len(u_result) = Len(Processable)
        /\ \A j \in 1..Len(Processable) : u_result[j] = IssueFinding(u_tool, Processable[j]).f

\* the issue is an object whose severity does not make the loop body raise
FineButLine(issue) ==
    issue.t = "dict" /\ issue.f["severity"].t \in {"str", "absent"}

\* the line field is missing or int() rejects it
LineMissingOrBad(issue) ==
    LET raw == issue.f[FieldKey(u_tool, "line")]
    IN raw.t = "absent" \/ ~PyInt(raw).ok

\* C4: an issue whose line field is absent or cannot be coerced to an integer
\* still yields its finding, with line 0.
C4_BadLineIsZero ==
    Returned =>
        \A k \in 1..Len(UnitItems) :
            (/\ \A j \in 1..k : FineButLine(UnitItems[j])
             /\ LineMissingOrBad(UnitItems[k]))
            => /\ Len(u_result) >= k
               /\ u_result[k].line = vInt(0)

-----------------------------------------------------------------------------
(* Truncation and stripping (specification SpecUnit) *)

\* the raw value the finding's title is taken from: the first non-empty candidate
RawTitle(tool, issue) ==
    IF tool = "psalm" THEN issue.f["message"]
    ELSE IF Truthy(issue.f[FieldKey(tool, "title")]) THEN issue.f[FieldKey(tool, "title")]
    ELSE issue.f["message"]

RawField(tool, issue, role) == issue.f[FieldKey(tool, role)]

\* the first n characters of s
First(s, n) == [i \in 1..(IF Len(s) < n THEN Len(s) ELSE n) |-> s[i]]

\* number of whitespace characters s starts with, counted from position i
RECURSIVE LeadWs(_, _)
LeadWs(s, i) == IF i <= Len(s) /\ s[i] \in Whitespace THEN LeadWs(s, i + 1) ELSE i - 1

\* number of whitespace characters s ends with, counted down from position i
RECURSIVE TrailWs(_, _)
TrailWs(s, i) == IF i >= 1 /\ s[i] \in Whitespace THEN TrailWs(s, i - 1) ELSE Len(s) - i

\* s without the whitespace around it
Trimmed(s) ==
    LET lead == LeadWs(s, 1)
    IN IF lead = Len(s) THEN <<>>
       ELSE [i \in 1..(Len(s) - lead - TrailWs(s, Len(s))) |-> s[lead + i]]

\* the law for one bounded field: never longer than n; an input string longer
\* than n comes out as its first n characters
TruncLaw(input, out, n) ==
    /\ out.t = "str"
    /\ Len(out.s) <= n
    /\ (input.t = "str" /\ Len(input.s) > n) =>
          /\ Len(out.s) = n
          /\ \A i \in 1..n : out.s[i] = input.s[i]

\* the law for every bounded field of finding f of raw issue x but the code field
TruncLawButCode(x, f) ==
    /\ TruncLaw(RawTitle(u_tool, x), f.title, TITLE_MAX)
    /\ TruncLaw(RawField(u_tool, x, "file"), f.file, FILE_MAX)
    /\ IF u_tool = "psalm"
       THEN /\ TruncLaw(RawField(u_tool, x, "meta"), f.metadata.type, TYPE_MAX)
            /\ TruncLaw(x.f["link"], f.metadata.link, LINK_MAX)
       ELSE TruncLaw(RawField(u_tool, x, "meta"), f.metadata.rule, RULE_MAX)

\* C7 as stated: for every bounded field of every adapter, code included, a
\* raw input string longer than N comes out with length exactly N, as a
\* prefix of the raw input string.
C7_TruncationOfRaw ==
    Returned =>
        \A k \in 1..Len(u_result) :
            /\ TruncLawButCode(UnitItems[k], u_result[k])
            /\ TruncLaw(RawField(u_tool, UnitItems[k], "code"), u_result[k].code, CODE_MAX)

\* the string the code field is cut from: psalm strips the snippet first
CodeInput(tool, raw) ==
    IF tool = "psalm" /\ raw.t = "str" THEN vStr(Trimmed(raw.s)) ELSE raw

\* C7 amended: the law holds for every bounded field, where the input of
\* psalm's code field is the snippet after stripping the whitespace around it.
C7_TruncationAfterStrip ==
    Returned =>
        \A k \in 1..Len(u_result) :
            /\ TruncLawButCode(UnitItems[k], u_result[k])
            /\ TruncLaw(CodeInput(u_tool, RawField(u_tool, UnitItems[k], "code")),
                        u_result[k].code, CODE_MAX)

\* C7 witness: a psalm snippet of CODE_MAX + 1 characters behind two
\* whitespace characters came out as the first CODE_MAX of the stripped ones
C7_Witness_LongSnippet ==
    /\ Returned
    /\ u_tool = "psalm"
    /\ \E k \in 1..Len(u_result) :
          /\ UnitItems[k].f["snippet"] = vStr(<<" ", "\n">> \o Pattern(CODE_MAX + 1))
          /\ u_result[k].code = vStr(Pattern(CODE_MAX))

\* the text of a raw code value: empty when the key is missing
CodeText(raw) == IF raw.t = "absent" THEN <<>> ELSE PyStr(raw)

\* C10 as stated: every adapter strips the raw code value and then cuts it to
\* CODE_MAX characters; a missing field gives the empty string.
C10_AllAdaptersStrip ==
    Returned =>
        \A k \in 1..Len(u_result) :
            u_result[k].code =
                vStr(First(Trimmed(CodeText(RawField(u_tool, UnitItems[k], "code"))), CODE_MAX))

\* C10 amended: psalm strips the snippet and then cuts it to CODE_MAX
\* characters; parse and progpilot cut the raw code to CODE_MAX characters
\* and keep its whitespace; a missing field gives the empty string.
C10_OnlyPsalmStrips ==
    Returned =>
        \A k \in 1..Len(u_result) :
            LET text == CodeText(RawField(u_tool, UnitItems[k], "code"))
            IN u_result[k].code =
                  vStr(First(IF u_tool = "psalm" THEN Trimmed(text) ELSE text, CODE_MAX))

\* C10 witness: a psalm snippet lost the whitespace around it
C10_Witness_PsalmStripped ==
    /\ Returned
    /\ u_tool = "psalm"
    /\ \E k \in 1..Len(u_result) :
          /\ UnitItems[k].f["snippet"] = vStr(<<"\n", " ", "$", "x", ";", "\t", "\n">>)
          /\ u_result[k].code = vStr(<<"$", "x", ";">>)

-----------------------------------------------------------------------------
(* Properties of the report (specification Spec) *)

Done == pc = "done"

PhalanxDone == program = "phalanx" /\ pc = "done"

\* sum of the values of a dict
RECURSIVE SumOver(_, _)
SumOver(d, keys) ==
    IF keys = {} THEN 0
    ELSE LET k == CHOOSE k \in keys : TRUE
         IN d[k] + SumOver(d, keys \ {k})

SumValues(d) == SumOver(d, DOMAIN d)

\* C1: in the report of phalanx.py the number of findings, total_findings,
\* the sum of the by_tool counts and the sum of the by_severity counts are equal.
C1_CountsAgree ==
    PhalanxDone =>
        /\ Len(report.findings) = report.summary.total_findings
        /\ report.summary.total_findings = SumValues(report.summary.by_tool)
        /\ report.summary.total_findings = SumValues(report.summary.by_severity)

\* C1 witness: a report with findings of all three tools, one raw entry dropped
C1_Witness_ThreeTools ==
    /\ PhalanxDone
    /\ report.summary.total_findings = 5
    /\ DOMAIN report.summary.by_tool = ToolSet
    /\ Len(parse_json.v.items) = 2
    /\ report.summary.by_tool["parse"] = 1

\* number of findings of the report that satisfy P
CountFindings(P(_)) == Cardinality({i \in 1..Len(report.findings) : P(report.findings[i])})

\* C8: by_severity has exactly the four levels as keys, each with the number
\* of findings of that level; by_tool has exactly the tools that have a
\* finding as keys, each with the number of findings of that tool.
C8_ExactHistograms ==
    PhalanxDone =>
        /\ DOMAIN report.summary.by_severity = SeverityLevels
        /\ \A s \in SeverityLevels :
              report.summary.by_severity[s] = CountFindings(LAMBDA f : f.severity = s)
        /\ DOMAIN report.summary.by_tool =
              {report.findings[i].tool : i \in 1..Len(report.findings)}
        /\ \A t \in DOMAIN report.summary.by_tool :
              report.summary.by_tool[t] = CountFindings(LAMBDA f : f.tool = t)

\* C8 witness: parse has no finding and no key; a level without finding counts 0
C8_Witness_ParseAbsent ==
    /\ PhalanxDone
    /\ DOMAIN report.summary.by_tool = {"psalm", "progpilot"}
    /\ report.summary.by_severity["high"] = 2
    /\ report.summary.by_severity["medium"] = 1
    /\ report.summary.by_severity["low"] = 0

\* position of a tool in the fixed order psalm, parse, progpilot
Rank(tool) == CHOOSE i \in 1..3 : Tools[i] = tool

\* the findings of one tool in the report
Block(tool) == SelectSeq(report.findings, LAMBDA f : f.tool = tool)

\* the raw issues the tool's adapter iterates over
RawItems(tool) ==
    LET got == DataGet(PayloadOf(tool), ListKey(tool))
    IN IF got.ok /\ PyIter(got.v).ok THEN PyIter(got.v).items ELSE <<>>

\* the finding the running program derives from a raw issue
FindingOf(tool, issue) ==
    IF program = "phalanx" THEN IssueFinding(tool, issue).f
    ELSE AegisIssueFinding(tool, issue).f

\* C6: in every report no finding of a later tool precedes a finding of an
\* earlier tool, and the findings of one tool are derived from raw issues at
\* increasing positions of that tool's raw list.
C6_BlocksInOrder ==
    Done =>
        /\ \A i, j \in 1..Len(report.findings) :
              i < j => Rank(report.findings[i].tool) <= Rank(report.findings[j].tool)
        /\ \A t \in ToolSet :
              \E m \in [1..Len(Block(t)) -> 1..Len(RawItems(t))] :
                  /\ \A i, j \in 1..Len(Block(t)) : i < j => m[i] < m[j]
                  /\ \A i \in 1..Len(Block(t)) : Block(t)[i] = FindingOf(t, RawItems(t)[m[i]])

\* C6 witness: one psalm finding, no parse finding, then the two progpilot
\* findings in the order of the raw list
C6_Witness_UnevenBlocks ==
    /\ PhalanxDone
    /\ Len(report.findings) = 3
    /\ report.findings[1].tool = "psalm"
    /\ RawItems("progpilot") = <<IssueB("progpilot"), IssueA("progpilot")>>
    /\ report.findings[2] = IssueFinding("progpilot", IssueB("progpilot")).f
    /\ report.findings[3] = IssueFinding("progpilot", IssueA("progpilot")).f

\* the text each tool's run returned
TextOf(tool) ==
    CASE tool = "psalm" -> psalm_out
      [] tool = "parse" -> parse_out
      [] OTHER          -> prog_out

\* the text is no JSON document, or its value lacks the list key or holds no list there
Malformed(tool) ==
    \/ TextOf(tool).kind = "garbage"
    \/ /\ TextOf(tool).kind = "json"
       /\ \/ TextOf(tool).val.t # "dict"
          \/ TextOf(tool).val.k # ListKey(tool)
          \/ TextOf(tool).val.v.t # "list"

\* what the tool's adapter returns for its payload, taken alone
AdapterAlone(tool) ==
    IF program = "phalanx" THEN Normalize(tool, PayloadOf(tool))
    ELSE AegisNormalize(tool, PayloadOf(tool)).findings

\* the statement of C5 for the running program
MalformedIsolated ==
    \A t \in ToolSet :
        Malformed(t) =>
            /\ ~(pc = "crashed" /\ raised.at = t)
            /\ Done => /\ Block(t) = <<>>
                       /\ \A o \in ToolSet \ {t} : Block(o) = AdapterAlone(o)
                       /\ report.summary.total_findings = Len(report.findings)

\* C5: a tool whose output is no JSON, or lacks its list key or holds no list
\* there, contributes no finding and never keeps the pipeline from reporting
\* the other tools' findings unchanged.
C5_MalformedIsolated == MalformedIsolated

\* the phalanx.py side of C5: main() of phalanx.py does isolate a malformed payload
PhalanxMalformedIsolated == program = "phalanx" => MalformedIsolated

-----------------------------------------------------------------------------
(* Order independence (specification SpecConc) *)

\* C9: whatever the order in which the three adapters execute, the report is
\* the one of the sequential run psalm, parse, progpilot on the same
\* payloads, and a second run on the same payloads gives an equal report,
\* the timestamp aside.
C9_OrderIndependent ==
    Done =>
        /\ Content(report) =
              Content(BuildReport(normalize_psalm(psalm_json)
                                  \o normalize_parse(parse_json)
                                  \o normalize_progpilot(prog_json), 0))
        /\ clock = 2 => Content(report) = c_prev

\* C9 witness: the second run, adapters returning in the order progpilot,
\* parse, psalm, each with findings
C9_Witness_ReversedSecondRun ==
    /\ Done
    /\ clock = 2
    /\ c_order = <<"progpilot", "parse", "psalm">>
    /\ \A t \in ToolSet : Len(c_findings[t]) >= 1
    /\ report.summary.scan_timestamp = 2

-----------------------------------------------------------------------------
(* The output is the normalization of a prefix (specification SpecUnit) *)

\* positions of the raw issues whose loop body raises
RaisingAt == {i \in 1..Len(UnitItems) : ~IssueFinding(u_tool, UnitItems[i]).ok}

\* number of raw issues before the first raising one (all of them if none raises)
PrefixLen ==
    IF RaisingAt = {} THEN Len(UnitItems)
    ELSE (CHOOSE i \in RaisingAt : \A j \in RaisingAt : i <= j) - 1

\* C11: an adapter of phalanx.py returns exactly the findings of the raw
\* issues before the first one whose processing raises, in order, and none for
\* any later issue; one finding per issue if none raises; it never raises.
C11_PrefixOnly ==
    Returned =>
        /\ raised = NoExc
        /\ Len(u_result) = PrefixLen
        /\ \A j \in 1..PrefixLen : u_result[j] = IssueFinding(u_tool, UnitItems[j]).f

\* C11 witness: the second of three issues raised; the first one's finding was
\* returned and the well-formed third issue yielded none
C11_Witness_TailLost ==
    /\ Returned
    /\ Len(UnitItems) = 3
    /\ RaisingAt = {2}
    /\ UnitItems[3] = BaseIssue(u_tool)
    /\ u_result = <<IssueFinding(u_tool, UnitItems[1]).f>>

=============================================================================
